---- MODULE Spec2Model ----
(***************************************************************************)
(* Model of the UCT (Monte Carlo Tree Search) engine of src/main.py:       *)
(* Node, AIPlayer.uct / select / extend / stimulate / backup / game_over / *)
(* get_move.  The board (module game, not part of src/) is modelled from   *)
(* the Position contract of spec.md section 6 as a one-row Reversi board.  *)
(* Boards live in a heap of objects so that deepcopy and in-place _move    *)
(* are visible: a node stores a reference, not a value.                    *)
(***************************************************************************)
EXTENDS Integers, Sequences, FiniteSets, TLC

\* ---------------------------------------------------------------- bounds
BoardLen == 5        \* cells of the one-row board
MaxTimes == 5        \* largest iteration budget handed to uct

\* ------------------------------------------------------ program constants
MaxPlies == 50                 \* stimulate: count < 50
WinBase == 10                  \* stimulate: 10 + diff
sys_maxsize == 2147483647      \* sys.maxsize, narrowed to 32 bits
UcbScale == 2000               \* fixed-point scale of a UCB score
NoNode == 0                    \* None as a node
NoAction == 0                  \* None as an action

VARIABLES
  selfColor,   \* AIPlayer.color
  max_times,   \* the iteration budget of this uct call
  board0,      \* value of the caller's board when get_move was called
  heap,        \* board objects; heap[1] is the caller's board
  nodes,       \* arena of Node objects; nodes[1] is the root
  i,           \* completed iterations of the loop of uct
  pc,          \* position inside uct
  selected,    \* selected_node
  leaf,        \* leaf_node
  board,       \* stimulate: reference of the rollout board
  color,       \* stimulate: side to move in the rollout
  count,       \* stimulate: loop counter
  moves,       \* stimulate: number of _move calls of this rollout
  illegal,     \* stimulate: a _move of this rollout was illegal on its board
  reward,      \* reward returned by stimulate
  result,      \* value returned by uct
  final        \* position the latest rollout ended on, until it is backed up

vars == <<selfColor, max_times, board0, heap, nodes, i, pc, selected, leaf,
          board, color, count, moves, illegal, reward, result, final>>

\* ------------------------------------------------------------- the board
Cells == {"X", "O", "."}
Colors == {"X", "O"}
Boards == [1..BoardLen -> Cells]

Opp(c) == IF c = "X" THEN "O" ELSE "X"

\* q lies strictly between p and e
Between(q, p, e) == (p < q /\ q < e) \/ (e < q /\ q < p)

\* pieces turned over in direction d by c playing at p: the run of opponent
\* pieces next to p, when a piece of c closes it
Flips(b, p, d, c) ==
  LET ends == {e \in 1..Len(b) :
                 /\ (e - p) * d > 1
                 /\ b[e] = c
                 /\ \A q \in 1..Len(b) : Between(q, p, e) => b[q] = Opp(c)}
  IN {q \in 1..Len(b) : \E e \in ends : Between(q, p, e)}

AllFlips(b, p, c) == Flips(b, p, 1, c) \cup Flips(b, p, -1, c)

\* c may play at p: an empty cell from which a run of opponent pieces is
\* closed by a piece of c
IsLegal(b, p, c) ==
  /\ p \in 1..Len(b)
  /\ b[p] = "."
  /\ \E e \in 1..Len(b) :
       /\ b[e] = c
       /\ (e - p > 1 \/ p - e > 1)
       /\ \A q \in 1..Len(b) : Between(q, p, e) => b[q] = Opp(c)

\* board.get_legal_actions(color), in enumeration order
get_legal_actions(b, c) ==
  LET legal(p) == IsLegal(b, p, c) IN
  SelectSeq([p \in 1..Len(b) |-> p], legal)

\* board._move(action, color) for a legal action
ApplyMove(b, a, c) ==
  [q \in 1..Len(b) |-> IF q = a \/ q \in AllFlips(b, a, c) THEN c ELSE b[q]]

\* outcomes of board._move(action, color): the contract leaves an illegal
\* move undefined; the board is then left alone or the piece is put down
MoveOutcomes(b, a, c) ==
  IF IsLegal(b, a, c) THEN {ApplyMove(b, a, c)}
  ELSE {b, [b EXCEPT ![a] = c]}

CountOf(b, c) == Cardinality({q \in 1..Len(b) : b[q] = c})

\* board.get_winner(): 0 black ('X') wins, 1 white ('O') wins, 2 draw
get_winner(b) ==
  LET x == CountOf(b, "X")
      o == CountOf(b, "O") IN
  IF x > o THEN [winner |-> 0, diff |-> x - o]
  ELSE IF x < o THEN [winner |-> 1, diff |-> o - x]
  ELSE [winner |-> 2, diff |-> 0]

\* ---------------------------------------------------------- board objects
\* deepcopy(board): the reference of the copy and the heap holding it
\* variant: the copy is the object itself
CopyRefAlias(h, r) == r

CopyRef(h, r) == Len(h) + 1
CopyHeap(h, r) == Append(h, h[r])

\* ------------------------------------------------------------------ Node
Node(b, p, a, c) ==
  [visits |-> 0, reward |-> 0, now_board |-> b, children |-> << >>,
   parent |-> p, action |-> a, color |-> c]

\* natural logarithm times 10^6
Ln1e6(n) ==
  CASE n <= 1 -> 0
    [] n = 2 -> 693147
    [] n = 3 -> 1098612
    [] n = 4 -> 1386294
    [] n = 5 -> 1609438
    [] n = 6 -> 1791759
    [] n = 7 -> 1945910
    [] OTHER -> 2079442

\* integer square root of x by bisection: lo * lo <= x < hi * hi
RECURSIVE SqrtBetween(_, _, _)
SqrtBetween(x, lo, hi) ==
  IF hi - lo <= 1 THEN lo
  ELSE LET mid == (lo + hi) \div 2 IN
       IF mid * mid <= x THEN SqrtBetween(x, mid, hi) ELSE SqrtBetween(x, lo, mid)

\* ucb_param * sqrt(x / 10^6), times UcbScale, with ucb_param = 1.5: three
\* times the integer square root of x
Explore(x) == 3 * SqrtBetween(x, 0, 4096)

\* Node.get_ucb(ucb_param), times UcbScale
get_ucb(ns, n) ==
  IF ns[n].visits = 0 THEN sys_maxsize
  ELSE ((UcbScale * ns[n].reward) \div ns[n].visits)
       + Explore((2 * Ln1e6(ns[ns[n].parent].visits)) \div ns[n].visits)

\* variant: the child gets the side of its parent
add_childSameSide(ns, n, b, a, c) ==
  LET ns1 == Append(ns, Node(b, n, a, ns[n].color)) IN
  [ns1 EXCEPT ![n].children = Append(@, Len(ns1))]

\* Node.add_child
add_child(ns, n, b, a, c) ==
  LET ns1 == Append(ns, Node(b, n, a, c)) IN
  [ns1 EXCEPT ![n].children = Append(@, Len(ns1))]

\* Node.full_expanded
full_expanded(ns, n) ==
  /\ Len(ns[n].children) # 0
  /\ \A k \in 1..Len(ns[n].children) : ns[ns[n].children[k]].visits # 0

\* the loop "for child in children: if max_ucb < child_ucb: ..." of uct and
\* select, from child k on
\* variant: the most visited child, max_ucb holding the largest visit count
RECURSIVE MaxVisitsLoop(_, _, _, _, _)
MaxVisitsLoop(ns, kids, k, max_node, max_ucb) ==
  IF k > Len(kids) THEN max_node
  ELSE LET u == ns[kids[k]].visits IN
       IF max_ucb < u THEN MaxVisitsLoop(ns, kids, k + 1, kids[k], u)
       ELSE MaxVisitsLoop(ns, kids, k + 1, max_node, max_ucb)

RECURSIVE MaxUcbLoop(_, _, _, _, _)
MaxUcbLoop(ns, kids, k, max_node, max_ucb) ==
  IF k > Len(kids) THEN max_node
  ELSE LET u == get_ucb(ns, kids[k]) IN
       IF max_ucb < u THEN MaxUcbLoop(ns, kids, k + 1, kids[k], u)
       ELSE MaxUcbLoop(ns, kids, k + 1, max_node, max_ucb)

MaxUcbChild(ns, n) == MaxUcbLoop(ns, ns[n].children, 1, NoNode, -sys_maxsize)

\* first kid with visits == 0, from child k on (None when there is none)
RECURSIVE FirstUnvisited(_, _, _)
FirstUnvisited(ns, kids, k) ==
  IF k > Len(kids) THEN NoNode
  ELSE IF ns[kids[k]].visits = 0 THEN kids[k]
  ELSE FirstUnvisited(ns, kids, k + 1)

\* variant: no recursion, the best child of a fully expanded node is returned
selectShallow(ns, n) ==
  IF Len(ns[n].children) = 0 THEN n
  ELSE IF full_expanded(ns, n) THEN MaxUcbChild(ns, n)
  ELSE FirstUnvisited(ns, ns[n].children, 1)

\* AIPlayer.select
RECURSIVE select(_, _)
select(ns, n) ==
  IF Len(ns[n].children) = 0 THEN n
  ELSE IF full_expanded(ns, n) THEN select(ns, MaxUcbChild(ns, n))
  ELSE FirstUnvisited(ns, ns[n].children, 1)

\* the loop of extend over the list of legal actions, from action k on
RECURSIVE ExtendLoop(_, _, _, _, _)
ExtendLoop(h, ns, n, acts, k) ==
  IF k > Len(acts) THEN [heap |-> h, nodes |-> ns]
  ELSE LET r == CopyRef(h, ns[n].now_board)
           h1 == CopyHeap(h, ns[n].now_board)
           h2 == [h1 EXCEPT ![r] = ApplyMove(h1[r], acts[k], ns[n].color)]
       IN ExtendLoop(h2, add_child(ns, n, r, acts[k], Opp(ns[n].color)),
                     n, acts, k + 1)

\* variant: a node is expanded whether or not it was simulated from
extendAlways(h, ns, n) ==
  ExtendLoop(h, ns, n, get_legal_actions(h[ns[n].now_board], ns[n].color), 1)

\* variant: the children are the legal moves of the other side
extendOtherSide(h, ns, n) ==
  IF ns[n].visits = 0 THEN [heap |-> h, nodes |-> ns]
  ELSE ExtendLoop(h, ns, n, get_legal_actions(h[ns[n].now_board], Opp(ns[n].color)), 1)

\* AIPlayer.extend: the heap and arena after it
extend(h, ns, n) ==
  IF ns[n].visits = 0 THEN [heap |-> h, nodes |-> ns]
  ELSE ExtendLoop(h, ns, n, get_legal_actions(h[ns[n].now_board], ns[n].color), 1)

\* variant: the expanded node itself is returned
extendResultSelf(ns0, ns1, n) == n

\* variant: the last created child is returned
extendResultLast(ns0, ns1, n) ==
  IF ns0[n].visits = 0 THEN n
  ELSE IF Len(ns1[n].children) = 0 THEN n
  ELSE ns1[n].children[Len(ns1[n].children)]

\* AIPlayer.extend: the node it returns, given the arena after it
extendResult(ns0, ns1, n) ==
  IF ns0[n].visits = 0 THEN n
  ELSE IF Len(ns1[n].children) = 0 THEN n
  ELSE ns1[n].children[1]

\* variant: the game is never over, the loop ends on the ply count alone
game_overNever(b) == FALSE

\* variant: the game is over only when the board is full
game_overFull(b) == \A q \in 1..Len(b) : b[q] # "."

\* AIPlayer.game_over
game_over(b) ==
  Len(get_legal_actions(b, "X")) = 0 /\ Len(get_legal_actions(b, "O")) = 0

\* variant: the sign is not turned for an engine playing 'X'
RewardOfNoFlip(b, me) ==
  LET w == get_winner(b) IN
  IF w.winner = 2 THEN 0
  ELSE IF w.winner = 0 THEN WinBase + w.diff
  ELSE -(WinBase + w.diff)

\* the reward computation at the end of stimulate
RewardOf(b, me) ==
  LET w == get_winner(b)
      r == IF w.winner = 2 THEN 0
           ELSE IF w.winner = 0 THEN WinBase + w.diff
           ELSE -(WinBase + w.diff)
  IN IF me = "X" THEN -r ELSE r

\* variant: a visit is counted only on the nodes of the engine's side
RECURSIVE backupVisitsOwnSide(_, _, _, _)
backupVisitsOwnSide(ns, n, r, me) ==
  IF n = NoNode THEN ns
  ELSE LET ns1 == [ns EXCEPT ![n].visits = IF ns[n].color = me THEN @ + 1 ELSE @,
                             ![n].reward = IF ns[n].color = me THEN @ + r ELSE @ - r]
       IN backupVisitsOwnSide(ns1, ns[n].parent, r, me)

\* variant: only the leaf is updated, the walk to the parent is missing
backupLeafOnly(ns, n, r, me) ==
  IF n = NoNode THEN ns
  ELSE [ns EXCEPT ![n].visits = @ + 1,
                  ![n].reward = IF ns[n].color = me THEN @ + r ELSE @ - r]

\* variant: the walk stops below the root
RECURSIVE backupBelowRoot(_, _, _, _)
backupBelowRoot(ns, n, r, me) ==
  IF n = NoNode \/ ns[n].parent = NoNode THEN ns
  ELSE LET ns1 == [ns EXCEPT ![n].visits = @ + 1,
                             ![n].reward = IF ns[n].color = me THEN @ + r ELSE @ - r]
       IN backupBelowRoot(ns1, ns[n].parent, r, me)

\* AIPlayer.backup
RECURSIVE backup(_, _, _, _)
backup(ns, n, r, me) ==
  IF n = NoNode THEN ns
  ELSE LET ns1 == [ns EXCEPT ![n].visits = @ + 1,
                             ![n].reward = IF ns[n].color = me THEN @ + r ELSE @ - r]
       IN backup(ns1, ns[n].parent, r, me)

\* ------------------------------------------------------------ the machine
\* AIPlayer.__init__: the player exists, get_move has not been called
Init ==
  /\ selfColor \in Colors
  /\ max_times = 0
  /\ board0 = << >>
  /\ heap = << >>
  /\ nodes = << >>
  /\ i = 0
  /\ pc = "idle"
  /\ selected = NoNode
  /\ leaf = NoNode
  /\ board = 0
  /\ color = selfColor
  /\ count = 0
  /\ moves = 0
  /\ illegal = FALSE
  /\ reward = 0
  /\ result = NoAction
  /\ final = << >>

\* get_move(board): root = Node(now_board=deepcopy(board), color=self.color),
\* then uct(max_times, root) starts
GetMove ==
  /\ pc = "idle"
  /\ \E b \in Boards :
       /\ board0' = b
       /\ heap' = CopyHeap(<<b>>, 1)
       /\ nodes' = <<Node(CopyRef(<<b>>, 1), NoNode, NoAction, selfColor)>>
  /\ max_times' \in 1..MaxTimes
  /\ i' = 0
  /\ pc' = "select"
  /\ UNCHANGED <<selfColor, selected, leaf, board, color, count, moves,
                 illegal, reward, result, final>>

\* selected_node = self.select(root)
Select ==
  /\ pc = "select"
  /\ i < max_times
  /\ selected' = select(nodes, 1)
  /\ pc' = "extend"
  /\ UNCHANGED <<selfColor, max_times, board0, heap, nodes, i, leaf, board,
                 color, count, moves, illegal, reward, result, final>>

\* leaf_node = self.extend(selected_node)
Extend ==
  /\ pc = "extend"
  /\ LET e == extend(heap, nodes, selected) IN
       /\ heap' = e.heap
       /\ nodes' = e.nodes
       /\ leaf' = extendResult(nodes, e.nodes, selected)
  /\ pc' = "stimulate"
  /\ UNCHANGED <<selfColor, max_times, board0, i, selected, board, color,
                 count, moves, illegal, reward, result, final>>

\* stimulate: board = deepcopy(node.now_board); color = node.color; count = 0
SimStart ==
  /\ pc = "stimulate"
  /\ board' = CopyRef(heap, nodes[leaf].now_board)
  /\ heap' = CopyHeap(heap, nodes[leaf].now_board)
  /\ color' = nodes[leaf].color
  /\ count' = 0
  /\ moves' = 0
  /\ pc' = "rollout"
  /\ UNCHANGED <<selfColor, max_times, board0, nodes, i, selected, leaf,
                 illegal, reward, result, final>>

\* the members of a list: random.choice(action_list) returns any of them
Elems(sq) == {sq[k] : k \in 1..Len(sq)}

\* board._move(action, c) on the rollout board, then the side flips
RolloutMove(a, c) ==
  /\ \E nb \in MoveOutcomes(heap[board], a, c) : heap' = [heap EXCEPT ![board] = nb]
  /\ illegal' = (illegal \/ ~IsLegal(heap[board], a, c))
  /\ color' = Opp(c)
  /\ count' = count + 1
  /\ moves' = moves + 1
  /\ pc' = "rollout"

\* one pass of the loop of stimulate, branch "can move"
SimMove ==
  /\ pc = "rollout"
  /\ ~game_over(heap[board]) /\ count < MaxPlies
  /\ LET action_list == get_legal_actions(heap[nodes[leaf].now_board], color) IN
       /\ Len(action_list) # 0
       /\ \E a \in Elems(action_list) : RolloutMove(a, color)
  /\ UNCHANGED <<selfColor, max_times, board0, nodes, i, selected, leaf,
                 board, reward, result, final>>

\* one pass of the loop of stimulate, branch "cannot move": the other side
\* moves; random.choice raises IndexError on an empty list
SimPass ==
  /\ pc = "rollout"
  /\ ~game_over(heap[board]) /\ count < MaxPlies
  /\ Len(get_legal_actions(heap[nodes[leaf].now_board], color)) = 0
  /\ LET action_list == get_legal_actions(heap[nodes[leaf].now_board], Opp(color)) IN
       IF Len(action_list) = 0
       THEN /\ pc' = "error"
            /\ UNCHANGED <<heap, illegal, color, count, moves>>
       ELSE \E a \in Elems(action_list) : RolloutMove(a, Opp(color))
  /\ UNCHANGED <<selfColor, max_times, board0, nodes, i, selected, leaf,
                 board, reward, result, final>>

\* the loop of stimulate ends; the reward is computed and returned, the
\* locals of stimulate (rollout board, color, count) go out of scope
SimEnd ==
  /\ pc = "rollout"
  /\ game_over(heap[board]) \/ count >= MaxPlies
  /\ reward' = RewardOf(heap[board], selfColor)
  /\ heap' = SubSeq(heap, 1, Len(heap) - 1)
  /\ board' = 0
  /\ color' = selfColor
  /\ count' = 0
  /\ moves' = 0
  /\ illegal' = FALSE
  /\ final' = heap[board]
  /\ pc' = "backup"
  /\ UNCHANGED <<selfColor, max_times, board0, nodes, i, selected, leaf,
                 result>>

\* self.backup(leaf_node, reward); the iteration is over and the next one
\* assigns selected_node, leaf_node and reward anew
Backup ==
  /\ pc = "backup"
  /\ nodes' = backup(nodes, leaf, reward, selfColor)
  /\ i' = i + 1
  /\ selected' = NoNode
  /\ leaf' = NoNode
  /\ reward' = 0
  /\ final' = << >>
  /\ pc' = "select"
  /\ UNCHANGED <<selfColor, max_times, board0, heap, board, color, count,
                 moves, illegal, result>>

\* after the loop of uct: the root child of maximal UCB; max_node.action
\* raises AttributeError when max_node is None
Decide ==
  /\ pc = "select"
  /\ i >= max_times
  /\ LET max_node == MaxUcbChild(nodes, 1) IN
       IF max_node = NoNode
       THEN pc' = "error" /\ result' = result
       ELSE pc' = "done" /\ result' = nodes[max_node].action
  /\ UNCHANGED <<selfColor, max_times, board0, heap, nodes, i, selected, leaf,
                 board, color, count, moves, illegal, reward, final>>

Next ==
  \/ GetMove
  \/ Select
  \/ Extend
  \/ SimStart
  \/ SimMove
  \/ SimPass
  \/ SimEnd
  \/ Backup
  \/ Decide

Spec == Init /\ [][Next]_vars

TypeOK ==
  /\ selfColor \in Colors
  /\ pc \in {"idle", "select", "extend", "stimulate", "rollout", "backup", "done", "error"}
  /\ count \in 0..MaxPlies

\* fairness: a rollout that has started keeps running its loop, the
\* interpreter never stops between two statements of stimulate
FairSpec == Spec /\ WF_vars(SimMove \/ SimPass \/ SimEnd)

\* ------------------------------------------------------------ properties
RootLegal == get_legal_actions(board0, selfColor)
RootKids == nodes[1].children
InSeq(x, sq) == \E k \in 1..Len(sq) : sq[k] = x

\* C1: a move returned by uct is a legal move of the engine's side on the
\* position get_move was given.
C1_ReturnedMoveIsLegal == pc = "done" => InSeq(result, RootLegal)

C1_Witness == pc = "done" /\ Len(RootLegal) >= 2 /\ result = RootLegal[2]

\* C2: when X is the engine's side and has exactly one legal move while O
\* has none, uct ends by returning that move, for every budget >= 1.
C2_SingleMoveReturned ==
  ( /\ selfColor = "X"
    /\ Len(get_legal_actions(board0, "X")) = 1
    /\ Len(get_legal_actions(board0, "O")) = 0
    /\ pc \in {"done", "error"} )
  => (pc = "done" /\ result = get_legal_actions(board0, "X")[1])

\* C3: when the side to move has no legal move, uct runs no iteration and
\* raises no error.
C3_NoMoveNoIteration ==
  (pc # "idle" /\ Len(RootLegal) = 0) => (i = 0 /\ pc \in {"select", "done"})

\* C4: the move returned is the incoming move of the first root child, in
\* insertion order, whose UCB score is maximal; an unvisited child scores
\* above every visited one.
C4_DecideByMaxUcb ==
  pc = "done" =>
    /\ \E k \in 1..Len(RootKids) :
         /\ nodes[RootKids[k]].action = result
         /\ \A j \in 1..Len(RootKids) :
              get_ucb(nodes, RootKids[j]) <= get_ucb(nodes, RootKids[k])
         /\ \A j \in 1..(k - 1) :
              get_ucb(nodes, RootKids[j]) < get_ucb(nodes, RootKids[k])
    /\ \A a, b \in 1..Len(RootKids) :
         (nodes[RootKids[a]].visits = 0 /\ nodes[RootKids[b]].visits > 0)
           => get_ucb(nodes, RootKids[a]) > get_ucb(nodes, RootKids[b])

\* all root children visited, the returned one neither the first nor the
\* single most visited
C4_Witness ==
  /\ pc = "done"
  /\ Len(RootKids) >= 2
  /\ \A k \in 1..Len(RootKids) : nodes[RootKids[k]].visits > 0
  /\ nodes[RootKids[1]].action # result
  /\ \E k \in 1..Len(RootKids) :
       /\ nodes[RootKids[k]].action = result
       /\ nodes[RootKids[k]].visits < nodes[RootKids[1]].visits

\* the outcome of a final position for side me: 10 + margin when me has
\* more pieces, -(10 + margin) when the other side has, 0 on a draw
EngineReward(b, me) ==
  LET mine == CountOf(b, me)
      theirs == CountOf(b, Opp(me)) IN
  IF mine > theirs THEN WinBase + (mine - theirs)
  ELSE IF mine < theirs THEN -(WinBase + (theirs - mine))
  ELSE 0

\* C5: the reward stimulate returns is the outcome of the final rollout
\* position for the engine's own side.
C5_RewardRelativeToEngine ==
  [][(pc = "rollout" /\ pc' = "backup")
       => reward' = EngineReward(heap[board], selfColor)]_vars

\* the parent chain of node n, root included
RECURSIVE Chain(_, _)
Chain(ns, n) == IF n = NoNode THEN {} ELSE {n} \cup Chain(ns, ns[n].parent)

\* C6: backup adds exactly 1 to visits of every node of the parent chain of
\* the leaf, root included, and leaves visits and reward of all other nodes
\* alone; no other step changes visits or reward of a node.
C6_BackupFrame ==
  [][ /\ Len(nodes') >= Len(nodes)
      /\ \A n \in 1..Len(nodes) :
           IF pc = "backup" /\ n \in Chain(nodes, leaf)
           THEN nodes'[n].visits = nodes[n].visits + 1
           ELSE /\ nodes'[n].visits = nodes[n].visits
                /\ nodes'[n].reward = nodes[n].reward
      /\ (pc = "backup" => 1 \in Chain(nodes, leaf)) ]_vars

\* a grandchild of the root has been backed up from
C6_Witness ==
  \E n \in 1..Len(nodes) :
    /\ nodes[n].parent # NoNode
    /\ nodes[nodes[n].parent].parent # NoNode
    /\ nodes[n].visits >= 1
    /\ nodes[1].visits >= 3

\* C7: backing up reward R from a root child adds R to the child's reward
\* and subtracts R from the root's.
C7_TwoPlySigns ==
  [][(pc = "backup" /\ leaf # 1 /\ nodes[leaf].parent = 1)
       => /\ nodes'[leaf].reward = nodes[leaf].reward + reward
          /\ nodes'[1].reward = nodes[1].reward - reward]_vars

\* neither side has a legal move on board b
BothStuck(b) == \A p \in 1..Len(b) : \A c \in Colors : ~IsLegal(b, p, c)

\* C8: a rollout applies at most 50 moves, makes no pass of its loop on a
\* board where neither side can move, and ends: the run is outside the
\* loop of stimulate again and again, so no rollout lasts forever.
C8_RolloutBounded ==
  /\ [](pc = "rollout" => (moves <= 50 /\ count <= 50))
  /\ [][(pc = "rollout" /\ pc' = "rollout")
          => (~BothStuck(heap[board]) /\ moves' = moves + 1 /\ moves' <= 50)]_vars
  /\ []<>(pc # "rollout")

\* a rollout that ran into the cap of 50 moves
C8_Witness == pc = "rollout" /\ moves = 50 /\ ~BothStuck(heap[board])

\* C9: every _move is called with a move that is legal for the moving side
\* on the board it is applied to.
C9_OnlyLegalMoves == ~illegal

\* C10: the caller's board keeps its value, no two nodes and no rollout
\* share a board object, the root holds the caller's position and every
\* other node holds its parent's position with its incoming move applied.
C10_NoSharedBoards ==
  pc # "idle" =>
  /\ heap[1] = board0
  /\ heap[nodes[1].now_board] = board0
  /\ \A n \in 1..Len(nodes) :
       /\ nodes[n].now_board # 1
       /\ nodes[n].now_board # board
       /\ \A m \in 1..Len(nodes) : m # n => nodes[m].now_board # nodes[n].now_board
       /\ n # 1 =>
            heap[nodes[n].now_board]
              = ApplyMove(heap[nodes[nodes[n].parent].now_board],
                          nodes[n].action, nodes[nodes[n].parent].color)

\* a rollout from a node below the root has changed its board
C10_Witness ==
  /\ pc = "rollout"
  /\ moves >= 1
  /\ heap[board] # heap[nodes[leaf].now_board]
  /\ Len(nodes) >= 3
  /\ leaf # 1

\* C12: uct runs max_times iterations, each one select, extend, stimulate,
\* backup in this order, every step on the node the step before produced,
\* and then decides; between iterations the visits of the root equal the
\* number of completed iterations, max_times when the decision is taken.
C12_IterationOrder ==
  /\ [](pc = "select" => (nodes[1].visits = i /\ i <= max_times))
  /\ [](pc = "done" => (i = max_times /\ nodes[1].visits = max_times))
  /\ [][ /\ (pc = "select" /\ i < max_times)
              => (pc' = "extend" /\ selected' \in 1..Len(nodes) /\ i' = i)
         /\ (pc = "select" /\ i >= max_times)
              => (pc' \in {"done", "error"} /\ i = max_times /\ nodes' = nodes)
         /\ pc = "extend"
              => /\ pc' = "stimulate" /\ i' = i
                 /\ leaf' \in {selected} \cup Elems(nodes'[selected].children)
         /\ pc = "stimulate"
              => /\ pc' = "rollout" /\ i' = i /\ leaf' = leaf
                 /\ heap'[board'] = heap[nodes[leaf].now_board]
                 /\ color' = nodes[leaf].color
         /\ pc = "rollout"
              => (pc' \in {"rollout", "backup"} /\ i' = i /\ leaf' = leaf)
         /\ pc = "backup"
              => /\ pc' = "select" /\ i' = i + 1
                 /\ nodes'[leaf].visits = nodes[leaf].visits + 1
                 /\ nodes'[1].visits = i + 1 ]_vars

\* the decision is taken after the largest budget, on a tree with
\* grandchildren
C12_Witness ==
  /\ pc = "done"
  /\ max_times = MaxTimes
  /\ nodes[1].visits = MaxTimes
  /\ \E n \in 1..Len(nodes) :
       nodes[n].parent # NoNode /\ nodes[nodes[n].parent].parent # NoNode

\* child number k of node p is the first child of p whose UCB score is
\* maximal
FirstMaxUcb(ns, p, k) ==
  /\ \A j \in 1..Len(ns[p].children) :
       get_ucb(ns, ns[p].children[j]) <= get_ucb(ns, ns[p].children[k])
  /\ \A j \in 1..(k - 1) :
       get_ucb(ns, ns[p].children[j]) < get_ucb(ns, ns[p].children[k])

\* child number k of node p is the first child of p with visits == 0
FirstZero(ns, p, k) ==
  /\ ns[ns[p].children[k]].visits = 0
  /\ \A j \in 1..(k - 1) : ns[ns[p].children[j]].visits # 0

AllKidsVisited(ns, p) ==
  /\ Len(ns[p].children) > 0
  /\ \A j \in 1..Len(ns[p].children) : ns[ns[p].children[j]].visits >= 1

\* node s is what the descent from the root ends on: an existing node
\* without children; every step of the path from the root to s goes from a
\* node whose children are all visited to its first child of maximal UCB
\* score, but for the last step, which may go from a node with an unvisited
\* child to its first unvisited child
SelectedOk(ns, s) ==
  /\ s \in 1..Len(ns)
  /\ Len(ns[s].children) = 0
  /\ 1 \in Chain(ns, s)
  /\ \A m \in Chain(ns, s) \ {1} :
       LET p == ns[m].parent IN
       \E k \in 1..Len(ns[p].children) :
         /\ ns[p].children[k] = m
         /\ IF AllKidsVisited(ns, p) THEN FirstMaxUcb(ns, p, k)
            ELSE m = s /\ FirstZero(ns, p, k)

\* C13: select(root) returns an existing node without children, reached by
\* descending into the first child of maximal UCB score while the children
\* are all visited and else taking the first unvisited child; it changes no
\* node.
C13_SelectDescends ==
  [][(pc = "select" /\ pc' = "extend")
       => (nodes' = nodes /\ heap' = heap /\ SelectedOk(nodes, selected'))]_vars

\* select has descended from a root with two visited children of different
\* UCB score into the second one
C13_Witness ==
  /\ pc = "extend"
  /\ Len(RootKids) >= 2
  /\ AllKidsVisited(nodes, 1)
  /\ selected = RootKids[2]
  /\ get_ucb(nodes, RootKids[1]) < get_ucb(nodes, RootKids[2])

\* C14: simulate before expand.  extend called on a node with visits == 0
\* returns that node and creates no child (nodes and boards are unchanged);
\* so in every state a node with at least one child has visits >= 1, that
\* is, a node with visits == 0 has no children.
C14_SimulateBeforeExpand ==
  /\ [](\A n \in 1..Len(nodes) :
          Len(nodes[n].children) > 0 => nodes[n].visits >= 1)
  /\ [][(pc = "extend" /\ nodes[selected].visits = 0)
           => (nodes' = nodes /\ heap' = heap /\ leaf' = selected)]_vars

\* extend has just returned an unvisited node that has legal moves, unexpanded
C14_Witness ==
  /\ pc = "stimulate"
  /\ leaf = selected
  /\ nodes[leaf].visits = 0
  /\ Len(nodes[leaf].children) = 0
  /\ Len(get_legal_actions(heap[nodes[leaf].now_board], nodes[leaf].color)) > 0

\* the legal moves of node n: those of its side on its position
LegalOf(h, ns, n) == get_legal_actions(h[ns[n].now_board], ns[n].color)

\* the incoming moves of the children of n, in insertion order
KidActions(ns, n) == [k \in 1..Len(ns[n].children) |-> ns[ns[n].children[k]].action]

\* C15: extend on a node with visits >= 1 creates exactly one child per legal
\* move of the node's side on the node's position, in enumeration order, and
\* returns the first created child; without legal moves it creates nothing
\* and returns the node.  select hands extend only nodes without children,
\* so no node is expanded twice: in every state the incoming moves of a
\* node's children are pairwise distinct and are either none or exactly the
\* legal moves of the node.
C15_OneChildPerLegalMove ==
  /\ [](pc = "extend" => Len(nodes[selected].children) = 0)
  /\ [](\A n \in 1..Len(nodes) :
          LET acts == KidActions(nodes, n) IN
          /\ \A j, k \in 1..Len(acts) : j # k => acts[j] # acts[k]
          /\ Len(acts) = 0 \/ Elems(acts) = Elems(LegalOf(heap, nodes, n)))
  /\ [][(pc = "extend" /\ nodes[selected].visits >= 1)
           => LET acts == LegalOf(heap, nodes, selected) IN
              /\ Len(nodes') = Len(nodes) + Len(acts)
              /\ \A n \in 1..Len(nodes) :
                   n # selected => nodes'[n] = nodes[n]
              /\ KidActions(nodes', selected) = acts
              /\ \A k \in 1..Len(acts) :
                   /\ nodes'[selected].children[k] = Len(nodes) + k
                   /\ nodes'[Len(nodes) + k].parent = selected
              /\ leaf' = IF Len(acts) = 0 THEN selected
                         ELSE nodes'[selected].children[1]]_vars

\* extend has just expanded a visited node with two legal moves or more and
\* returned the first child
C15_Witness ==
  /\ pc = "stimulate"
  /\ nodes[selected].visits >= 1
  /\ Len(nodes[selected].children) >= 2
  /\ leaf = nodes[selected].children[1]

\* C16: in every state of the tree, a node with visits == 0 has reward == 0.
C16_UnvisitedHasNoReward ==
  \A n \in 1..Len(nodes) : nodes[n].visits = 0 => nodes[n].reward = 0

\* a rollout with a winner has been backed up while a sibling of the leaf is
\* still unvisited
C16_Witness ==
  /\ pc = "select"
  /\ \E n, m \in 1..Len(nodes) :
       /\ nodes[n].visits = 0
       /\ nodes[m].parent = nodes[n].parent
       /\ nodes[m].visits >= 1
       /\ nodes[m].reward # 0

\* number of edges from node n up to the root
Depth(ns, n) == Cardinality(Chain(ns, n)) - 1

\* C17: in every state of the tree, the root has no parent and no incoming
\* move and its side is the engine's side; the side of every other node is
\* the opponent of its parent's side, so a node's side is the engine's side
\* exactly when its depth is even.
C17_SidesAlternate ==
  Len(nodes) >= 1 =>
    /\ nodes[1].parent = NoNode
    /\ nodes[1].action = NoAction
    /\ nodes[1].color = selfColor
    /\ \A n \in 2..Len(nodes) :
         /\ nodes[n].parent \in 1..Len(nodes)
         /\ nodes[n].action # NoAction
         /\ nodes[n].color = Opp(nodes[nodes[n].parent].color)
    /\ \A n \in 1..Len(nodes) :
         (nodes[n].color = selfColor) <=> (Depth(nodes, n) % 2 = 0)

\* the tree has a node at depth 2, for an engine playing 'O'
C17_Witness ==
  /\ selfColor = "O"
  /\ \E n \in 1..Len(nodes) : Depth(nodes, n) = 2 /\ nodes[n].color = "O"

\* C18: the two sign inversions cancel at the children of the root.  Every
\* child of the root is created with reward 0; a backup adds to the reward
\* of the root child on the path of the leaf the outcome of the rollout for
\* the engine's side (10 + margin when the engine's side won, -(10 + margin)
\* when the opponent won, 0 on a draw) and leaves the other root children
\* alone; no other step changes the reward of a root child.  So the reward
\* of a root child is the sum of the engine-side outcomes of the rollouts
\* backed up through it, for both engine sides.
C18_RootChildRewards ==
  [][ /\ \A c \in 1..Len(nodes) :
           nodes[c].parent = 1 =>
             nodes'[c].reward - nodes[c].reward =
               IF pc = "backup" /\ c \in Chain(nodes, leaf)
               THEN EngineReward(final, selfColor)
               ELSE 0
      /\ \A c \in (Len(nodes) + 1)..Len(nodes') :
           nodes'[c].parent = 1 => nodes'[c].reward = 0 ]_vars

\* two rollouts have been backed up through a child of the root of an engine
\* playing 'X', with a gain in total
C18_Witness ==
  /\ pc = "select"
  /\ selfColor = "X"
  /\ \E c \in Elems(RootKids) : nodes[c].visits >= 2 /\ nodes[c].reward > 0

\* sum of the visits of the nodes kids[k], kids[k + 1], ...
RECURSIVE SumVisits(_, _, _)
SumVisits(ns, kids, k) ==
  IF k > Len(kids) THEN 0
  ELSE ns[kids[k]].visits + SumVisits(ns, kids, k + 1)

\* C19: visit conservation.  At every iteration boundary a node with at
\* least one child has visits == 1 + the sum of its children's visits.  The
\* leaf that is simulated and backed up never has children, and a backup
\* adds 1 to the visits of a node without children exactly when that node is
\* the leaf; nodes start with visits 0 and no other step changes visits, so
\* the visits of a node without children count the times it was the leaf.
C19_VisitConservation ==
  /\ [](pc = "select" =>
          \A n \in 1..Len(nodes) :
            Len(nodes[n].children) > 0 =>
              nodes[n].visits = 1 + SumVisits(nodes, nodes[n].children, 1))
  /\ [](pc \in {"stimulate", "rollout", "backup"} => Len(nodes[leaf].children) = 0)
  /\ [][ /\ \A n \in 1..Len(nodes) :
              Len(nodes[n].children) = 0 =>
                nodes'[n].visits - nodes[n].visits =
                  IF pc = "backup" /\ n = leaf THEN 1 ELSE 0
         /\ \A n \in (Len(nodes) + 1)..Len(nodes') : nodes'[n].visits = 0 ]_vars

\* an iteration boundary where a node below the root has children and one
\* of them has been visited
C19_Witness ==
  /\ pc = "select"
  /\ \E n \in 2..Len(nodes) :
       /\ Len(nodes[n].children) > 0
       /\ nodes[n].visits >= 2

\* the list stimulate takes its pick from, for side c: the legal moves on
\* the board of the start node
RolloutList(c) == get_legal_actions(heap[nodes[leaf].now_board], c)

\* C20: stimulate never picks from an empty list.  Whenever the body of its
\* loop runs and the list of the side to move is empty (the pass branch),
\* the list it then takes for the opponent is not empty; no rollout step
\* ends in the error of random.choice.
C20_PassHasMove ==
  /\ []((/\ pc = "rollout"
          /\ ~game_over(heap[board]) /\ count < MaxPlies
          /\ Len(RolloutList(color)) = 0)
            => Len(RolloutList(Opp(color))) # 0)
  /\ [][pc = "rollout" => pc' # "error"]_vars

\* the pass branch has run and is about to run again: the side to move has
\* had no move on the start node's board for two plies
C20_Witness ==
  /\ pc = "rollout"
  /\ ~game_over(heap[board]) /\ count < MaxPlies
  /\ count >= 2
  /\ Len(RolloutList(color)) = 0
====
